---- MODULE Spec2Model ----
(***************************************************************************)
(* Model of server.js: an in-memory registry of WhatsApp sessions          *)
(* (sessionId -> { client, ready, qrDataUrl }), the four adapter event     *)
(* callbacks that initSession wires to each client, and the HTTP handlers  *)
(* GET /register, GET /health, POST /send and GET /send.                   *)
(*                                                                         *)
(* Node runs one callback at a time, so every action below is one          *)
(* synchronous run of a callback: from its start to its return or to its   *)
(* first await.  The two awaits of the program (QRCode.toDataURL in the    *)
(* qr callback, client.sendMessage in the send handlers) are split into a  *)
(* dispatching action and a settling action; in between, any other         *)
(* callback may run.  The adapter (whatsapp-web.js Client) and the QR      *)
(* encoder are external: their events and outcomes are nondeterministic.   *)
(***************************************************************************)
EXTENDS Integers, Sequences, FiniteSets, TLC

VARIABLES
    sessions,   \* the Map `sessions`: a function, DOMAIN = the registered ids
    clients,    \* every Client constructed so far, in order of construction;
                \* a client handle is its index here.  A client records the
                \* calls of initialize() and sendMessage() made on it and how
                \* many of its initialize() promises were rejected
    encoding,   \* QRCode.toDataURL calls awaited by a qr callback
    sending,    \* per form, the number of sendMessage calls a handler awaits
    resp,       \* the HTTP response written last
    qrCount,    \* history: per id, number of qr events delivered
    afterDisc,  \* history: per id, a disconnected event was delivered and no
                \* qr event since
    failed,     \* history: the ids one of whose encodings was rejected
    regLog      \* history: when resp answers a GET /register for a session,
                \* that session's id, the kinds of its steps since, and the
                \* kinds of its steps between the GET /register answered just
                \* before for the same id (if any) and this one

vars == <<sessions, clients, encoding, sending, resp,
          qrCount, afterDisc, failed, regLog>>

histVars == <<qrCount, afterDisc, failed, regLog>>

----------------------------------------------------------------------------
(* Bounds of the model *)

\* total number of qr events and disconnected events the adapters deliver,
\* initialize() promises they reject and sendMessage calls the handlers
\* make in a behaviour; ready and auth_failure events and requests that make
\* no call are not counted
MaxSteps == 2

----------------------------------------------------------------------------
(* Values *)

\* JavaScript null (the initial qrDataUrl) and undefined (an absent field)
Null == "<null>"
Undefined == "<undefined>"

\* !v of the handlers: an absent field and the empty string are falsy
Falsy(v) == v \in {Undefined, Null, ""}

\* session identifiers the callers use
Ids == {"s1", "s2"}
\* what req.query.sessionId / req.body.sessionId can be
IdInputs == Ids \cup {Undefined}
\* recipients and texts the callers use
Tos == {"15551234567"}
ToInputs == Tos \cup {Undefined}
Texts == {"hi"}
TextInputs == Texts \cup {Undefined}
\* err.message of a failed sendMessage
Errs == {"E1", "E2"}
\* the two transports of Send
Forms == {"POST", "GET"}

\* the n-th pairing token the adapter of a session issues: every qr event
\* carries a fresh token
Token(n) == "TOKEN" \o ToString(n)

\* QRCode.toDataURL(qr): a PNG data URL of the token
toDataURL(qr) == "data:image/png;base64," \o qr

\* a chat id without the suffix
chatIdOfBare(to) == to

\* `${to}@c.us`
chatIdOf(to) == to \o "@c.us"

NoReg == "<no register>"
NoRegLog == [sessionId |-> NoReg, since |-> {}, between |-> {NoReg}]

RECURSIVE SumOver(_, _)
SumOver(f, S) ==
    IF S = {} THEN 0
    ELSE LET x == CHOOSE y \in S : TRUE IN f[x] + SumOver(f, S \ {x})

\* number of calls of initialize() / sendMessage() recorded over all clients
Initialized == SumOver([c \in DOMAIN clients |-> clients[c].initialize],
                       DOMAIN clients)
Sent == SumOver([c \in DOMAIN clients |-> Len(clients[c].sendMessage)],
                DOMAIN clients)

InitRejections == SumOver([c \in DOMAIN clients |-> clients[c].initRejected],
                          DOMAIN clients)

\* the counted steps taken so far: every one of them leaves its trace in the
\* state
Steps == SumOver(qrCount, Ids) + (Initialized - Len(clients)) + Sent
         + InitRejections

----------------------------------------------------------------------------
(* Registry *)

has(sessionId) == sessionId \in DOMAIN sessions

\* initSession without the sessions.has(sessionId) check: every call
\* constructs a Client and stores a new entry
initSessionNoCheck(sessionId) ==
    /\ clients' = Append(clients, [clientId |-> sessionId,
                                   initialize |-> 1,
                                   initRejected |-> 0,
                                   sendMessage |-> <<>>])
    /\ sessions' = (sessionId :> [client |-> Len(clients) + 1,
                                  ready |-> FALSE,
                                  qrDataUrl |-> Null]) @@ sessions

\* initSession that stores a fresh { ready: false, qrDataUrl: null } around
\* the existing client when the id is already registered
initSessionReset(sessionId) ==
    IF has(sessionId)
    THEN /\ sessions' = [sessions EXCEPT ![sessionId].ready = FALSE,
                                         ![sessionId].qrDataUrl = Null]
         /\ UNCHANGED clients
    ELSE initSessionNoCheck(sessionId)

\* initSession that calls client.initialize() a second time after storing
\* the entry
initSessionInitTwice(sessionId) ==
    IF has(sessionId)
    THEN UNCHANGED <<sessions, clients>>
    ELSE /\ clients' = Append(clients, [clientId |-> sessionId,
                                        initialize |-> 2,
                                        initRejected |-> 0,
                                        sendMessage |-> <<>>])
         /\ sessions' = (sessionId :> [client |-> Len(clients) + 1,
                                       ready |-> FALSE,
                                       qrDataUrl |-> Null]) @@ sessions

\* function initSession(sessionId): returns the entry of sessionId; when there
\* is none, constructs a Client, stores { client, ready: false,
\* qrDataUrl: null } and calls client.initialize() without awaiting it.
initSession(sessionId) ==
    IF has(sessionId)
    THEN UNCHANGED <<sessions, clients>>
    ELSE /\ clients' = Append(clients, [clientId |-> sessionId,
                                        initialize |-> 1,
                                        initRejected |-> 0,
                                        sendMessage |-> <<>>])
         /\ sessions' = (sessionId :> [client |-> Len(clients) + 1,
                                       ready |-> FALSE,
                                       qrDataUrl |-> Null]) @@ sessions

Init ==
    /\ sessions = <<>>
    /\ clients = <<>>
    /\ encoding = {}
    /\ sending = [form \in Forms |-> 0]
    /\ resp = [op |-> "none", status |-> 0, body |-> [none |-> TRUE]]
    /\ qrCount = [id \in Ids |-> 0]
    /\ afterDisc = [id \in Ids |-> FALSE]
    /\ failed = {}
    /\ regLog = NoRegLog

\* history: a step of kind k happened to session id
Noted(id, k) ==
    IF regLog.sessionId = id THEN [regLog EXCEPT !.since = @ \cup {k}]
    ELSE regLog

----------------------------------------------------------------------------
(* Adapter event callbacks, registered by initSession on the session's client *)

\* client.on('qr', async qr => { ... await QRCode.toDataURL(qr) ...
\* The callback calls the encoder and suspends at the await.
OnQr(sessionId, qr) ==
    /\ has(sessionId)
    /\ encoding' = encoding \cup {[sessionId |-> sessionId, qr |-> qr]}
    /\ qrCount' = [qrCount EXCEPT ![sessionId] = @ + 1]
    /\ afterDisc' = [afterDisc EXCEPT ![sessionId] = FALSE]
    /\ regLog' = Noted(sessionId, "qr")
    /\ UNCHANGED <<sessions, clients, sending, resp, failed>>

\* a qr callback whose `session` is one variable shared by all sessions and
\* so names the session created last
QrEncodedLatest(e) ==
    /\ e \in encoding
    /\ sessions' = [id \in DOMAIN sessions |->
                       IF sessions[id].client = Len(clients)
                       THEN [sessions[id] EXCEPT !.qrDataUrl = toDataURL(e.qr)]
                       ELSE sessions[id]]
    /\ encoding' = encoding \ {e}
    /\ regLog' = Noted(e.sessionId, "encoded")
    /\ UNCHANGED <<clients, sending, resp, qrCount, afterDisc, failed>>

\* ... session.qrDataUrl = dataUrl ... : the awaited encoding e resolved
QrEncoded(e) ==
    /\ e \in encoding
    /\ sessions' = [sessions EXCEPT ![e.sessionId].qrDataUrl = toDataURL(e.qr)]
    /\ encoding' = encoding \ {e}
    /\ regLog' = Noted(e.sessionId, "encoded")
    /\ UNCHANGED <<clients, sending, resp, qrCount, afterDisc, failed>>

\* a catch block that also drops the stored pairing image
QrEncodeFailedClears(e) ==
    /\ e \in encoding
    /\ sessions' = [sessions EXCEPT ![e.sessionId].qrDataUrl = Null]
    /\ encoding' = encoding \ {e}
    /\ failed' = failed \cup {e.sessionId}
    /\ UNCHANGED <<clients, sending, resp, qrCount, afterDisc, regLog>>

\* ... } catch (err) { console.error(...) } : the awaited encoding e rejected
QrEncodeFailed(e) ==
    /\ e \in encoding
    /\ encoding' = encoding \ {e}
    /\ failed' = failed \cup {e.sessionId}
    /\ UNCHANGED <<sessions, clients, sending, resp, qrCount, afterDisc, regLog>>

\* a ready callback that also drops the pairing image
OnReadyClearsQr(sessionId) ==
    /\ has(sessionId)
    /\ sessions' = [sessions EXCEPT ![sessionId].ready = TRUE,
                                    ![sessionId].qrDataUrl = Null]
    /\ UNCHANGED <<clients, encoding, sending, resp, qrCount, afterDisc, failed, regLog>>

\* client.on('ready', () => { session.ready = true; ... })
OnReady(sessionId) ==
    /\ has(sessionId)
    /\ sessions' = [sessions EXCEPT ![sessionId].ready = TRUE]
    /\ UNCHANGED <<clients, encoding, sending, resp, qrCount, afterDisc, failed, regLog>>

\* an auth_failure callback that also calls client.initialize()
OnAuthFailureReinit(sessionId) ==
    /\ has(sessionId)
    /\ sessions' = [sessions EXCEPT ![sessionId].ready = FALSE]
    /\ clients' = [clients EXCEPT ![sessions[sessionId].client].initialize = @ + 1]
    /\ UNCHANGED <<encoding, sending, resp, qrCount, afterDisc, failed, regLog>>

\* client.on('auth_failure', msg => { ...; session.ready = false; })
OnAuthFailure(sessionId) ==
    /\ has(sessionId)
    /\ sessions' = [sessions EXCEPT ![sessionId].ready = FALSE]
    /\ UNCHANGED <<clients, encoding, sending, resp, qrCount, afterDisc, failed, regLog>>

\* a disconnected callback without session.ready = false
OnDisconnectedKeepsReady(sessionId) ==
    /\ has(sessionId)
    /\ sessions' = [sessions EXCEPT ![sessionId].qrDataUrl = Null]
    /\ clients' = [clients EXCEPT ![sessions[sessionId].client].initialize = @ + 1]
    /\ afterDisc' = [afterDisc EXCEPT ![sessionId] = TRUE]
    /\ regLog' = Noted(sessionId, "disconnected")
    /\ UNCHANGED <<encoding, sending, resp, qrCount, failed>>

\* a disconnected callback without client.initialize()
OnDisconnectedNoInit(sessionId) ==
    /\ has(sessionId)
    /\ sessions' = [sessions EXCEPT ![sessionId].ready = FALSE,
                                    ![sessionId].qrDataUrl = Null]
    /\ afterDisc' = [afterDisc EXCEPT ![sessionId] = TRUE]
    /\ regLog' = Noted(sessionId, "disconnected")
    /\ UNCHANGED <<clients, encoding, sending, resp, qrCount, failed>>

\* client.on('disconnected', reason => { session.ready = false;
\*   session.qrDataUrl = null; client.initialize(); })
OnDisconnected(sessionId) ==
    /\ has(sessionId)
    /\ sessions' = [sessions EXCEPT ![sessionId].ready = FALSE,
                                    ![sessionId].qrDataUrl = Null]
    /\ clients' = [clients EXCEPT ![sessions[sessionId].client].initialize = @ + 1]
    /\ afterDisc' = [afterDisc EXCEPT ![sessionId] = TRUE]
    /\ regLog' = Noted(sessionId, "disconnected")
    /\ UNCHANGED <<encoding, sending, resp, qrCount, failed>>

\* client.initialize() is called without await, then or catch (lines 63 and
\* 66): when its promise is rejected no code of the program runs, and only
\* the client knows
InitRejected(c) ==
    /\ c \in DOMAIN clients
    /\ clients[c].initRejected < clients[c].initialize
    /\ clients' = [clients EXCEPT ![c].initRejected = @ + 1]
    /\ UNCHANGED <<sessions, encoding, sending, resp, histVars>>

----------------------------------------------------------------------------
(* HTTP handlers *)

Reply(op, status, body) == [op |-> op, status |-> status, body |-> body]

\* a register handler that calls initSession before it checks sessionId
RegisterInitFirst(sessionId) ==
    /\ initSession(sessionId)
    /\ resp' = IF Falsy(sessionId)
               THEN Reply("GET /register", 400, [error |-> "Missing sessionId"])
               ELSE Reply("GET /register", 200,
                          [qrDataUrl |-> sessions'[sessionId].qrDataUrl])
    /\ regLog' = IF Falsy(sessionId) THEN NoRegLog
                 ELSE [sessionId |-> sessionId, since |-> {},
                       between |-> IF regLog.sessionId = sessionId
                                   THEN regLog.since ELSE {NoReg}]
    /\ UNCHANGED <<encoding, sending, qrCount, afterDisc, failed>>

\* app.get('/register', ...)
Register(sessionId) ==
    IF Falsy(sessionId)
    THEN /\ resp' = Reply("GET /register", 400, [error |-> "Missing sessionId"])
         /\ regLog' = NoRegLog
         /\ UNCHANGED <<sessions, clients, encoding, sending,
                        qrCount, afterDisc, failed>>
    ELSE /\ initSession(sessionId)
         /\ resp' = Reply("GET /register", 200,
                          [qrDataUrl |-> sessions'[sessionId].qrDataUrl])
         /\ regLog' = [sessionId |-> sessionId, since |-> {},
                       between |-> IF regLog.sessionId = sessionId
                                   THEN regLog.since ELSE {NoReg}]
         /\ UNCHANGED <<encoding, sending, qrCount, afterDisc, failed>>

\* app.get('/health', ...): the response
HealthReply(sessionId) ==
    IF Falsy(sessionId)
    THEN Reply("GET /health", 400, [error |-> "Missing sessionId"])
    ELSE IF ~has(sessionId)
    THEN Reply("GET /health", 200, [status |-> "initializing"])
    ELSE Reply("GET /health", 200,
               [status |-> IF sessions[sessionId].ready
                           THEN "ready" ELSE "initializing"])

\* a health handler that looks the session up with initSession
HealthCreates(sessionId) ==
    /\ initSession(sessionId)
    /\ resp' = Reply("GET /health", 200,
                     [status |-> IF sessions'[sessionId].ready
                                 THEN "ready" ELSE "initializing"])
    /\ regLog' = NoRegLog
    /\ UNCHANGED <<encoding, sending, qrCount, afterDisc, failed>>

\* app.get('/health', ...)
Health(sessionId) ==
    /\ resp' = HealthReply(sessionId)
    /\ regLog' = NoRegLog
    /\ UNCHANGED <<sessions, clients, encoding, sending,
                   qrCount, afterDisc, failed>>

\* a dispatch that answers 200 at once, before the awaited call settles
DispatchAndReply(form, call) ==
    /\ clients' = [clients EXCEPT ![call.client].sendMessage =
                      Append(@, [chatId |-> call.chatId, text |-> call.text])]
    /\ sending' = [sending EXCEPT ![form] = @ + 1]
    /\ resp' = Reply(form \o " /send", 200, [success |-> TRUE])
    /\ regLog' = NoRegLog

\* await <client>.sendMessage(chatId, text): the call is recorded by the
\* client and the handler suspends
Dispatch(form, call) ==
    /\ clients' = [clients EXCEPT ![call.client].sendMessage =
                      Append(@, [chatId |-> call.chatId, text |-> call.text])]
    /\ sending' = [sending EXCEPT ![form] = @ + 1]
    /\ UNCHANGED <<resp, regLog>>

\* the checks of POST /send without the one on `to`
PostSendCheckNoTo(sessionId, to, text) ==
    IF Falsy(sessionId) \/ Falsy(text) THEN 400
    ELSE IF ~has(sessionId) \/ ~sessions[sessionId].ready THEN 503
    ELSE 0

\* the checks of POST /send with !session only, without !session.ready
PostSendCheckNoReady(sessionId, to, text) ==
    IF Falsy(sessionId) \/ Falsy(to) \/ Falsy(text) THEN 400
    ELSE IF ~has(sessionId) THEN 503
    ELSE 0

\* app.post('/send', async ...): the checks before the try block; 0 when
\* the handler goes on to the send
PostSendCheck(sessionId, to, text) ==
    IF Falsy(sessionId) \/ Falsy(to) \/ Falsy(text) THEN 400
    ELSE IF ~has(sessionId) \/ ~sessions[sessionId].ready THEN 503
    ELSE 0

\* app.post('/send', async ...): the call in the try block
PostSendCall(sessionId, to, text) ==
    [client |-> sessions[sessionId].client, chatId |-> chatIdOf(to), text |-> text]

\* app.post('/send', async ...), up to the await
PostSend(sessionId, to, text) ==
    /\ CASE PostSendCheck(sessionId, to, text) = 400 ->
              /\ resp' = Reply("POST /send", 400,
                               [error |-> "Missing sessionId, to, or text"])
              /\ regLog' = NoRegLog
              /\ UNCHANGED <<clients, sending>>
         [] PostSendCheck(sessionId, to, text) = 503 ->
              /\ resp' = Reply("POST /send", 503, [error |-> "Session not ready"])
              /\ regLog' = NoRegLog
              /\ UNCHANGED <<clients, sending>>
         [] OTHER -> Dispatch("POST", PostSendCall(sessionId, to, text))
    /\ UNCHANGED <<sessions, encoding, qrCount, afterDisc, failed>>

\* app.post('/send', async ...), after the await: the response to the
\* adapter's outcome
PostSendReply(outcome) ==
    IF outcome.ok
    THEN Reply("POST /send", 200, [success |-> TRUE])
    ELSE Reply("POST /send", 500, [error |-> outcome.message])

\* the checks of GET /send with the session only looked up, its ready flag
\* not read
GetSendCheckNoReady(sessionId, to, text) ==
    IF Falsy(sessionId) \/ Falsy(to) \/ Falsy(text) THEN 400
    ELSE IF ~has(sessionId) THEN 503
    ELSE 0

\* the checks of GET /send with a missing text let through
GetSendCheckNoText(sessionId, to, text) ==
    IF Falsy(sessionId) \/ Falsy(to) THEN 400
    ELSE IF ~has(sessionId) \/ ~sessions[sessionId].ready THEN 503
    ELSE 0

\* app.get('/send', async ...): the checks before the try block
GetSendCheck(sessionId, to, text) ==
    IF Falsy(sessionId) \/ Falsy(to) \/ Falsy(text) THEN 400
    ELSE IF ~has(sessionId) \/ ~sessions[sessionId].ready THEN 503
    ELSE 0

\* app.get('/send', async ...): the call in the try block
GetSendCall(sessionId, to, text) ==
    [client |-> sessions[sessionId].client, chatId |-> chatIdOf(to), text |-> text]

\* app.get('/send', async ...), up to the await.  The texts are the
\* source's without their leading emoji.
GetSend(sessionId, to, text) ==
    /\ CASE GetSendCheck(sessionId, to, text) = 400 ->
              /\ resp' = Reply("GET /send", 400,
                               [text |-> "Missing sessionId, to, or text"])
              /\ regLog' = NoRegLog
              /\ UNCHANGED <<clients, sending>>
         [] GetSendCheck(sessionId, to, text) = 503 ->
              /\ resp' = Reply("GET /send", 503, [text |-> "Session not ready"])
              /\ regLog' = NoRegLog
              /\ UNCHANGED <<clients, sending>>
         [] OTHER -> Dispatch("GET", GetSendCall(sessionId, to, text))
    /\ UNCHANGED <<sessions, encoding, qrCount, afterDisc, failed>>

\* app.get('/send', async ...), after the await
GetSendReply(outcome) ==
    IF outcome.ok
    THEN Reply("GET /send", 200, [text |-> "Message sent successfully!"])
    ELSE Reply("GET /send", 500, [text |-> "Failed to send message"])

\* what awaiting sendMessage can produce: a value, or an Error with a message
Outcomes == {[ok |-> TRUE, message |-> ""]}
            \cup {[ok |-> FALSE, message |-> m] : m \in Errs}

\* an awaited sendMessage of a handler of the form settles and the handler
\* responds
SendSettled(form, outcome) ==
    /\ sending[form] > 0
    /\ sending' = [sending EXCEPT ![form] = @ - 1]
    /\ resp' = IF form = "POST" THEN PostSendReply(outcome)
               ELSE GetSendReply(outcome)
    /\ regLog' = NoRegLog
    /\ UNCHANGED <<sessions, clients, encoding, qrCount, afterDisc, failed>>

----------------------------------------------------------------------------
(* The adapters deliver any event to any registered session at any time; the
   callers send any request at any time.  The guards on Steps bound the
   model. *)

Event ==
    \/ \E sessionId \in Ids :
          /\ Steps < MaxSteps
          /\ OnQr(sessionId, Token(qrCount[sessionId] + 1))
    \/ \E e \in encoding : QrEncoded(e)
    \/ \E e \in encoding : QrEncodeFailed(e)
    \/ \E sessionId \in Ids : OnReady(sessionId)
    \/ \E sessionId \in Ids : OnAuthFailure(sessionId)
    \/ \E sessionId \in Ids :
          /\ Steps < MaxSteps
          /\ OnDisconnected(sessionId)
    \/ \E c \in DOMAIN clients :
          /\ Steps < MaxSteps
          /\ InitRejected(c)

Handler ==
    \/ \E sessionId \in IdInputs : Register(sessionId)
    \/ \E sessionId \in IdInputs : Health(sessionId)
    \/ \E sessionId \in IdInputs, to \in ToInputs, text \in TextInputs :
          /\ PostSendCheck(sessionId, to, text) = 0 => Steps < MaxSteps
          /\ PostSend(sessionId, to, text)
    \/ \E sessionId \in IdInputs, to \in ToInputs, text \in TextInputs :
          /\ GetSendCheck(sessionId, to, text) = 0 => Steps < MaxSteps
          /\ GetSend(sessionId, to, text)
    \/ \E form \in Forms, outcome \in Outcomes : SendSettled(form, outcome)

Next == Event \/ Handler

Spec == Init /\ [][Next]_vars

\* the adapter settles sendMessage calls: while a promise awaited on line
\* 106 or 128 is outstanding, one of them eventually resolves or rejects
FairSpec ==
    Spec /\ WF_vars(\E form \in Forms, outcome \in Outcomes :
                       SendSettled(form, outcome))

----------------------------------------------------------------------------
(* C1 .. C4: registry and lifecycle *)

\* the steps of session id that deliver one of its awaited encodings
Encoded(id) == \E e \in encoding : e.sessionId = id /\ QrEncoded(e)

\* C1: after a ready event for a session, Health for it reports "ready";
\* after a disconnected event, Health reports "initializing", and every
\* Register for the session answers a null image as long as no qr event has
\* been delivered since the disconnect -- also when an encoding started
\* before the disconnect completes after it.
C1_NullUntilNewQr ==
    [][\A id \in Ids :
         /\ OnReady(id) => HealthReply(id)'.body.status = "ready"
         /\ OnDisconnected(id) => HealthReply(id)'.body.status = "initializing"
         /\ (afterDisc[id] /\ Register(id)) => resp'.body.qrDataUrl = Null]_vars

\* C2 as stated: two Register calls in succession for an id answer the same
\* image when no qr event was delivered to the session between them.
C2_SameUnlessNewQr ==
    [][\A id \in Ids :
         (Register(id) /\ regLog.sessionId = id /\ "qr" \notin regLog.since)
            => resp'.body.qrDataUrl = resp.body.qrDataUrl]_vars

\* C2 amended: two Register calls in succession for an id answer the same
\* image when between them no encoding of the session completed and no
\* disconnected event was delivered to it; and, whatever callbacks and
\* requests run in between, only those two kinds of step change the image
\* Register reads.
C2_SameUnlessEncodedOrDisconnected ==
    [][\A id \in Ids :
         /\ (/\ Register(id)
             /\ regLog.sessionId = id
             /\ regLog.since \cap {"encoded", "disconnected"} = {})
               => resp'.body.qrDataUrl = resp.body.qrDataUrl
         /\ (has(id) /\ sessions'[id].qrDataUrl # sessions[id].qrDataUrl)
               => Encoded(id) \/ OnDisconnected(id)]_vars

\* a second Register in succession answered the image of an earlier token
\* although a new qr event, and nothing else of the session, came between
C2_Witness ==
    /\ resp.op = "GET /register"
    /\ resp.status = 200
    /\ resp.body.qrDataUrl # Null
    /\ regLog.between = {"qr"}

\* C3: the registry holds at most one session per identifier (every Client
\* ever constructed is the client of the entry of its own id), an entry's
\* client is the one constructed when the id was first registered and is
\* never reassigned, and no entry is ever removed.
C3_OneSessionPerId ==
    [][/\ \A id \in DOMAIN sessions :
             /\ id \in DOMAIN sessions'
             /\ sessions'[id].client = sessions[id].client
       /\ \A id \in DOMAIN sessions' \ DOMAIN sessions :
             /\ Len(clients') = Len(clients) + 1
             /\ sessions'[id].client = Len(clients')
       /\ \A c \in DOMAIN clients' :
             /\ clients'[c].clientId \in DOMAIN sessions'
             /\ sessions'[clients'[c].clientId].client = c]_vars

\* both ids are registered, each with its own client, and a session that
\* was registered again after a disconnect still has its first client, which
\* was initialized a second time
C3_Witness ==
    /\ DOMAIN sessions = Ids
    /\ Len(clients) = Cardinality(Ids)
    /\ resp.op = "GET /register"
    /\ regLog.sessionId \in Ids
    /\ clients[sessions[regLog.sessionId].client].clientId = regLog.sessionId
    /\ clients[sessions[regLog.sessionId].client].initialize = 2

\* C4: Health for an identifier that is not in the registry reports
\* "initializing", creates no session and initializes no client.
C4_HealthUnknown ==
    [][\A id \in Ids :
         (Health(id) /\ ~has(id))
            => /\ resp'.status = 200
               /\ resp'.body = [status |-> "initializing"]
               /\ UNCHANGED <<sessions, clients>>]_vars

\* Health has answered "initializing" while the registry is still empty
C4_Witness ==
    /\ resp.op = "GET /health"
    /\ resp.status = 200
    /\ resp.body.status = "initializing"
    /\ DOMAIN sessions = {}
    /\ clients = <<>>

----------------------------------------------------------------------------
(* C5 .. C10: the send handlers *)

SendOps == {"POST /send", "GET /send"}
Failures == {o \in Outcomes : ~o.ok}

\* a run of either send handler up to its return or its await
SendStep(sessionId, to, text) ==
    PostSend(sessionId, to, text) \/ GetSend(sessionId, to, text)

\* C5: a Send, in either form, with sessionId, to or text absent is answered
\* 400 and makes no sendMessage call, whatever the registry holds.
C5_MissingField ==
    [][\/ /\ resp'.op \in SendOps
          /\ resp'.status = 400
          /\ UNCHANGED <<clients, sending>>
       \/ \A sessionId \in IdInputs, to \in ToInputs, text \in TextInputs :
             Undefined \in {sessionId, to, text}
                => ~SendStep(sessionId, to, text)]_vars

\* a send was answered 400 while every registered session is ready: the 400
\* is the last response and no call was made
C5_Witness ==
    /\ resp.op \in SendOps
    /\ resp.status = 400
    /\ DOMAIN sessions = Ids
    /\ \A id \in Ids : sessions[id].ready
    /\ Sent = 0

\* C6: a Send with all fields present whose session is unknown, or known and
\* not ready, is answered 503, which is neither the validation rejection nor
\* the adapter-failure rejection of its form, and makes no sendMessage call.
C6_NotReady ==
    [][\/ /\ resp'.op \in SendOps
          /\ resp'.status = 503
          /\ resp'.status # 400
          /\ \A o \in Failures :
                /\ resp' # PostSendReply(o)
                /\ resp' # GetSendReply(o)
                /\ resp'.status # PostSendReply(o).status
                /\ resp'.status # GetSendReply(o).status
          /\ UNCHANGED <<clients, sending>>
       \/ \A sessionId \in Ids, to \in Tos, text \in Texts :
             (~has(sessionId) \/ ~sessions[sessionId].ready)
                => ~SendStep(sessionId, to, text)]_vars

\* a send was answered 503 while every id is registered, none of them ready
C6_Witness ==
    /\ resp.op \in SendOps
    /\ resp.status = 503
    /\ DOMAIN sessions = Ids
    /\ \A id \in Ids : ~sessions[id].ready
    /\ Sent = 0

\* C7: a Send {sessionId: id, to, text} to a ready session makes exactly one
\* sendMessage call, on the client of session id and on no other, addressed
\* to `to` followed by "@c.us" and carrying text; when the call succeeds the
\* handler answers the success acknowledgement of its form.
C7_SendReachesAdapter ==
    [][/\ \A sessionId \in Ids, to \in Tos, text \in Texts :
            (/\ has(sessionId)
             /\ sessions[sessionId].ready
             /\ SendStep(sessionId, to, text))
               => /\ clients' =
                       [clients EXCEPT ![sessions[sessionId].client].sendMessage =
                           Append(@, [chatId |-> to \o "@c.us", text |-> text])]
                  /\ clients[sessions[sessionId].client].clientId = sessionId
                  /\ Sent' = Sent + 1
       /\ \A form \in Forms, o \in Outcomes :
            (o.ok /\ SendSettled(form, o))
               => /\ resp'.status = 200
                  /\ resp'.op = form \o " /send"
                  /\ resp'.body \in {[success |-> TRUE],
                                     [text |-> "Message sent successfully!"]}
                  /\ UNCHANGED clients]_vars

\* after Register, a qr event and a ready event for s1, a Send to s1 was
\* answered 200 and the client of s1 recorded the one call; no other client
\* recorded any
C7_Witness ==
    /\ resp.op \in SendOps
    /\ resp.status = 200
    /\ has("s1")
    /\ qrCount["s1"] > 0
    /\ sessions["s1"].ready
    /\ clients[sessions["s1"].client].sendMessage =
          <<[chatId |-> "15551234567@c.us", text |-> "hi"]>>
    /\ Sent = 1
    /\ DOMAIN sessions = Ids

\* body carries the message m
Carries(body, m) == \E f \in DOMAIN body : body[f] = m

\* C8: when the awaited sendMessage fails, the handler of either form answers
\* 500 with the adapter's failure message.
C8_FailureCarriesMessage ==
    [][\A form \in Forms, o \in Failures :
         SendSettled(form, o)
            => /\ resp'.status = 500
               /\ Carries(resp'.body, o.message)]_vars

\* C9: for every sessionId, to, text (present or absent), every registry state
\* and every adapter outcome, GET /send and POST /send run the same checks
\* with the same result, make the same sendMessage call or none, answer the
\* same status, and leave the registry unchanged.
C9_FormsAgree ==
    /\ [](/\ \A sessionId \in IdInputs, to \in ToInputs, text \in TextInputs :
               /\ PostSendCheck(sessionId, to, text) = GetSendCheck(sessionId, to, text)
               /\ PostSendCheck(sessionId, to, text) = 0
                     => PostSendCall(sessionId, to, text) = GetSendCall(sessionId, to, text)
          /\ \A o \in Outcomes : PostSendReply(o).status = GetSendReply(o).status)
    /\ [][\/ /\ UNCHANGED sessions
             /\ Len(clients') = Len(clients)
             /\ \A c \in DOMAIN clients :
                   clients'[c].initialize = clients[c].initialize
          \/ /\ \A sessionId \in IdInputs, to \in ToInputs, text \in TextInputs :
                   ~SendStep(sessionId, to, text)
             /\ \A form \in Forms, o \in Outcomes : ~SendSettled(form, o)]_vars

\* a POST /send and a GET /send with the same fields are both awaiting their
\* call, and the client recorded the same call twice
C9_Witness ==
    /\ sending = [form \in Forms |-> 1]
    /\ \E c \in DOMAIN clients :
          /\ Len(clients[c].sendMessage) = 2
          /\ clients[c].sendMessage[1] = clients[c].sendMessage[2]

\* C10: every run of an HTTP handler -- Register, Health, Send in either form
\* up to its await, and the rest of a Send after its await -- leaves the ready
\* flag and the qrDataUrl of every registered session unchanged: a step that
\* changes one of them is no handler step.
C10_HandlersLeaveFields ==
    [][\/ \A id \in DOMAIN sessions :
             /\ id \in DOMAIN sessions'
             /\ sessions'[id].ready = sessions[id].ready
             /\ sessions'[id].qrDataUrl = sessions[id].qrDataUrl
       \/ ~Handler]_vars

\* Register has answered for a session that is ready and holds an image, and
\* the answer carries that image
C10_Witness ==
    /\ resp.op = "GET /register"
    /\ regLog.sessionId \in DOMAIN sessions
    /\ sessions[regLog.sessionId].ready
    /\ sessions[regLog.sessionId].qrDataUrl # Null
    /\ resp.body.qrDataUrl = sessions[regLog.sessionId].qrDataUrl
    /\ regLog.between # {NoReg}

----------------------------------------------------------------------------
(* C11 .. C15: validation, pairing tokens, creation, status, reconnection *)

\* C11: Register or Health with the sessionId missing is answered 400 and
\* touches neither the registry nor any client: a step that does otherwise is
\* no such request.
C11_MissingSessionId ==
    [][\/ /\ resp'.op \in {"GET /register", "GET /health"}
          /\ resp'.status = 400
          /\ UNCHANGED <<sessions, clients>>
       \/ \A v \in IdInputs :
             Falsy(v) => ~(Register(v) \/ Health(v))]_vars

\* a request without sessionId was answered 400 while both ids are
\* registered, and only their two clients exist, each initialized once
C11_Witness ==
    /\ resp.op \in {"GET /register", "GET /health"}
    /\ resp.status = 400
    /\ DOMAIN sessions = Ids
    /\ Len(clients) = Cardinality(Ids)
    /\ Initialized = Cardinality(Ids)

\* the encodings session id still awaits
Pending(id) == {e \in encoding : e.sessionId = id}

\* C12: when every encoding of a session has completed (none is awaited, none
\* was rejected) and no disconnected event came after its last qr event, the
\* session's qrDataUrl is the data URL of the token issued last, whatever the
\* order in which the encodings completed.
C12_LatestToken ==
    \A id \in DOMAIN sessions :
       (/\ qrCount[id] > 0
        /\ Pending(id) = {}
        /\ id \notin failed
        /\ ~afterDisc[id])
          => sessions[id].qrDataUrl = toDataURL(Token(qrCount[id]))

\* C13: initSession on an identifier that is not registered adds exactly
\* that identifier, with ready false and a null pairing image, around one
\* new client on which initialize was called exactly once, and the register
\* response is written in the same step, without waiting for the
\* initialization; on a registered identifier it changes neither the
\* registry nor any client.  A rejected initialization changes neither the
\* registry nor the response already given.  Only a register step changes
\* the set of registered identifiers.
C13_GetOrCreate ==
    [][/\ \A id \in Ids :
             Register(id) =>
                /\ resp'.op = "GET /register" /\ resp'.status = 200
                /\ IF id \in DOMAIN sessions
                   THEN UNCHANGED <<sessions, clients>>
                   ELSE /\ DOMAIN sessions' = DOMAIN sessions \cup {id}
                        /\ \A other \in DOMAIN sessions :
                              sessions'[other] = sessions[other]
                        /\ sessions'[id].ready = FALSE
                        /\ sessions'[id].qrDataUrl = Null
                        /\ sessions'[id].client = Len(clients) + 1
                        /\ Len(clients') = Len(clients) + 1
                        /\ SubSeq(clients', 1, Len(clients)) = clients
                        /\ clients'[Len(clients')].clientId = id
                        /\ clients'[Len(clients')].initialize = 1
       /\ \A c \in DOMAIN clients :
             InitRejected(c) => UNCHANGED <<sessions, resp>>
       /\ \/ DOMAIN sessions' = DOMAIN sessions
          \/ \E id \in Ids : Register(id)]_vars

\* a session was created, its first initialization was rejected, and a
\* second register of the same identifier answered from the existing entry
C13_Witness ==
    /\ resp.op = "GET /register"
    /\ resp.status = 200
    /\ regLog.sessionId \in DOMAIN sessions
    /\ regLog.between = {}
    /\ clients[sessions[regLog.sessionId].client].initRejected = 1
    /\ clients[sessions[regLog.sessionId].client].initialize = 1
    /\ ~sessions[regLog.sessionId].ready
    /\ Len(clients) = 1

\* C14: the status Health reports for a registered identifier follows the
\* last lifecycle event of its session: it is "initializing" when the
\* session is created, becomes "ready" with a ready event, becomes
\* "initializing" with an auth_failure or disconnected event, and no other
\* step (qr event, encoding completion, rejected initialization, request,
\* event of another session) changes it; a Health request answers with it.
C14_HealthFollowsLifecycle ==
    [][\A id \in Ids :
          /\ \/ HealthReply(id)'.body.status = "ready"
             \/ ~OnReady(id)
          /\ \/ HealthReply(id)'.body.status = "initializing"
             \/ ~(OnAuthFailure(id) \/ OnDisconnected(id))
          /\ \/ id \in DOMAIN sessions
             \/ id \notin DOMAIN sessions'
             \/ HealthReply(id)'.body.status = "initializing"
          /\ \/ HealthReply(id)' = HealthReply(id)
             \/ id \notin DOMAIN sessions
             \/ OnReady(id) \/ OnAuthFailure(id) \/ OnDisconnected(id)
          /\ \/ ~Health(id)
             \/ /\ resp'.status = 200
                /\ resp'.body.status = "ready" <=>
                      (id \in DOMAIN sessions /\ sessions[id].ready)
                /\ resp'.body.status \in {"ready", "initializing"}]_vars

\* Health has just answered "ready" while one session is ready after a qr
\* event, with its pairing image stored, and the other was disconnected
C14_Witness ==
    /\ resp.op = "GET /health"
    /\ resp.body = [status |-> "ready"]
    /\ \E id \in DOMAIN sessions :
          /\ sessions[id].ready
          /\ qrCount[id] > 0
          /\ sessions[id].qrDataUrl # Null
    /\ \E id \in DOMAIN sessions :
          /\ ~sessions[id].ready
          /\ afterDisc[id]

\* C15: a disconnected event sets ready to false, clears the pairing image,
\* keeps the session's client and adds exactly one initialize call on that
\* client and on no other, whatever became of the earlier calls; a client
\* starts with one initialize call and no other step adds one.  So the
\* initialize calls on a session's client number 1 plus the disconnected
\* events delivered to the session.
C15_ReinitOncePerDisconnect ==
    [][/\ \A id \in Ids :
             \/ ~OnDisconnected(id)
             \/ /\ sessions'[id].ready = FALSE
                /\ sessions'[id].qrDataUrl = Null
                /\ sessions'[id].client = sessions[id].client
                /\ clients' = [clients EXCEPT ![sessions[id].client].initialize
                                                  = clients[sessions[id].client].initialize + 1]
       /\ \A c \in DOMAIN clients' :
             \/ /\ c \in DOMAIN clients
                /\ clients'[c].initialize = clients[c].initialize
             \/ /\ c \notin DOMAIN clients
                /\ clients'[c].initialize = 1
             \/ \E id \in DOMAIN sessions :
                   /\ sessions[id].client = c
                   /\ OnDisconnected(id)]_vars

\* two disconnected events were delivered to a session in a row, the second
\* with nothing heard of the initialization the first one started: three
\* initialize calls on its client
C15_Witness ==
    \E id \in DOMAIN sessions :
       /\ clients[sessions[id].client].initialize = 3
       /\ clients[sessions[id].client].initRejected = 0
       /\ qrCount[id] = 0
       /\ afterDisc[id]
       /\ ~sessions[id].ready
       /\ sessions[id].qrDataUrl = Null

----------------------------------------------------------------------------
(* C16 .. C20: dispatch, encoding failure, frame of ready and auth_failure,
   isolation, one response per send *)

\* C16: a step that makes a sendMessage call on a client starts in a state
\* where a registered session owns that client and is ready (check and call
\* are one step).  A disconnected or auth_failure event changes neither the
\* sends awaited nor the last response, and when an awaited send settles the
\* response is 200 exactly when the adapter's outcome is a value and 500
\* exactly when it is an error, whatever the session's state is by then.
C16_DispatchWhenReady ==
    [][/\ \A c \in DOMAIN clients :
             \/ clients'[c].sendMessage = clients[c].sendMessage
             \/ \E id \in DOMAIN sessions :
                   /\ sessions[id].client = c
                   /\ sessions[id].ready
       /\ \A id \in Ids :
             \/ UNCHANGED <<sending, resp>>
             \/ ~(OnDisconnected(id) \/ OnAuthFailure(id))
       /\ \A form \in Forms, o \in Outcomes :
             \/ ~SendSettled(form, o)
             \/ /\ resp'.op = form \o " /send"
                /\ resp'.status = IF o.ok THEN 200 ELSE 500
                /\ sending'[form] = sending[form] - 1
                /\ UNCHANGED <<sessions, clients>>]_vars

\* a send is awaited on the only session's client while that session, ready
\* when the call was made, has since been disconnected
C16_Witness ==
    /\ Len(clients) = 1
    /\ Len(clients[1].sendMessage) = 1
    /\ sending["POST"] = 1
    /\ \E id \in DOMAIN sessions :
          /\ sessions[id].client = 1
          /\ ~sessions[id].ready
          /\ afterDisc[id]

\* C17: when the encoding of a pairing token fails, every session keeps its
\* pairing image and its ready flag, and nothing else the program holds
\* changes but the callback's own end: no client is called, no awaited send
\* and no response is affected.
C17_EncodeFailureKeepsImage ==
    [][\/ UNCHANGED <<sessions, clients, sending, resp>>
       \/ \A e \in encoding : ~QrEncodeFailed(e)]_vars

\* two tokens were issued to a session, the image stored is the first
\* token's and no encoding is left: the second token's encoding failed and
\* the image of the first stayed (or was stored afterwards)
C17_Witness ==
    \E id \in DOMAIN sessions :
       /\ id \in failed
       /\ qrCount[id] = 2
       /\ Pending(id) = {}
       /\ sessions[id].qrDataUrl = toDataURL(Token(1))
       /\ sessions[id].ready

\* C18: an auth_failure event sets the session's ready flag to false and a
\* ready event sets it to true; neither changes the pairing image, another
\* session, any client (no initialize call), the encodings and sends under
\* way or the last response.  A register of a registered identifier answers
\* with the stored pairing image, ready or not.
C18_ReadyAndAuthFailureFrame ==
    [][\A id \in Ids :
          /\ \/ ~OnAuthFailure(id)
             \/ /\ sessions' = [sessions EXCEPT ![id].ready = FALSE]
                /\ UNCHANGED <<clients, encoding, sending, resp>>
          /\ \/ ~OnReady(id)
             \/ /\ sessions' = [sessions EXCEPT ![id].ready = TRUE]
                /\ UNCHANGED <<clients, encoding, sending, resp>>
          /\ \/ id \notin DOMAIN sessions
             \/ ~Register(id)
             \/ resp' = Reply("GET /register", 200,
                              [qrDataUrl |-> sessions[id].qrDataUrl])]_vars

\* register has answered with the pairing image of a session that is ready
C18_Witness ==
    /\ resp.op = "GET /register"
    /\ resp.status = 200
    /\ regLog.sessionId \in DOMAIN sessions
    /\ regLog.since = {}
    /\ sessions[regLog.sessionId].ready
    /\ sessions[regLog.sessionId].qrDataUrl = toDataURL(Token(1))
    /\ resp.body.qrDataUrl = toDataURL(Token(1))
    /\ clients[sessions[regLog.sessionId].client].initialize = 1

\* a step of work on identifier a: an adapter event of its session, the
\* completion of an encoding or of an initialization started for it, or a
\* request that names it
StepFor(a) ==
    \/ OnQr(a, Token(qrCount[a] + 1))
    \/ \E e \in encoding : e.sessionId = a /\ (QrEncoded(e) \/ QrEncodeFailed(e))
    \/ OnReady(a) \/ OnAuthFailure(a) \/ OnDisconnected(a)
    \/ \E c \in DOMAIN clients : clients[c].clientId = a /\ InitRejected(c)
    \/ Register(a) \/ Health(a)
    \/ \E to \in ToInputs, text \in TextInputs : SendStep(a, to, text)

\* session b's entry and everything recorded by its client
Kept(b) ==
    /\ sessions'[b] = sessions[b]
    /\ clients'[sessions[b].client] = clients[sessions[b].client]

\* C19: every session has a client of its own, constructed for its
\* identifier, and a step of work on identifier a changes neither the ready
\* flag, the pairing image or the client of a session registered under
\* another identifier b nor the initialize and sendMessage calls recorded
\* by b's client.
C19_Isolation ==
    /\ [](\A a \in DOMAIN sessions :
            /\ sessions[a].client \in DOMAIN clients
            /\ clients[sessions[a].client].clientId = a)
    /\ [][\A a \in Ids :
            \/ \A b \in DOMAIN sessions \ {a} : Kept(b)
            \/ ~StepFor(a)]_vars

\* work was done on both sessions and left them apart: one is ready with
\* its pairing image and one initialize call, the other was disconnected
\* and has two initialize calls and no image
C19_Witness ==
    \E a, b \in DOMAIN sessions :
       /\ a # b
       /\ sessions[a].ready
       /\ sessions[a].qrDataUrl = toDataURL(Token(1))
       /\ clients[sessions[a].client].initialize = 1
       /\ ~sessions[b].ready
       /\ sessions[b].qrDataUrl = Null
       /\ afterDisc[b]
       /\ clients[sessions[b].client].initialize = 2

\* the sends whose sendMessage call has not settled yet
Awaited == SumOver(sending, Forms)

\* the operation name of the send handler of the form
SendOp(form) == IF form = "POST" THEN "POST /send" ELSE "GET /send"

\* a run of the send handler of the form up to its return or its await
SendOf(form, sessionId, to, text) ==
    IF form = "POST" THEN PostSend(sessionId, to, text)
    ELSE GetSend(sessionId, to, text)

\* what a send request of the form is due in the step that handles it: a
\* 400 or 503 response and no await when a field is absent or the session
\* is not registered or not ready, and otherwise one more await and no
\* response yet
AnsweredOrAwaited(form, sessionId, to, text) ==
    IF \/ Undefined \in {sessionId, to, text}
       \/ sessionId \notin DOMAIN sessions
       \/ ~sessions[sessionId].ready
    THEN /\ resp'.op = SendOp(form)
         /\ resp'.status \in {400, 503}
         /\ sending' = sending
    ELSE /\ resp' = resp
         /\ sending' = [sending EXCEPT ![form] = sending[form] + 1]

\* C20: every step that starts or ends the await of a send or leaves a send
\* response is one of these.  A send request that fails a check is answered
\* 400 or 503 in the step that checks it and awaits nothing; one that passes
\* makes its call and is not answered in that step; each settling of an
\* awaited call answers once, 200 or 500, and ends one await.  If the adapter settles every call, every awaited send
\* is answered: the awaited sends run out, whatever lifecycle events are
\* delivered meanwhile.
C20_OneResponsePerSend ==
    /\ [][\A form \in Forms :
            \/ /\ sending'[form] = sending[form]
               /\ resp' = resp \/ resp'.op # SendOp(form)
            \/ /\ \A sessionId \in IdInputs, to \in ToInputs, text \in TextInputs :
                     \/ AnsweredOrAwaited(form, sessionId, to, text)
                     \/ ~SendOf(form, sessionId, to, text)
               /\ \/ sending'[form] >= sending[form]
                  \/ /\ sending' = [sending EXCEPT ![form] = sending[form] - 1]
                     /\ resp'.op = SendOp(form)
                     /\ resp'.status \in {200, 500}
                     /\ \E outcome \in Outcomes : SendSettled(form, outcome)]_vars
    /\ (Awaited > 0) ~> (Awaited = 0)

\* a send of each form is awaited while the session they were made on has
\* been disconnected
C20_Witness ==
    /\ sending = [form \in Forms |-> 1]
    /\ Len(clients) = 1
    /\ Len(clients[1].sendMessage) = 2
    /\ \E id \in DOMAIN sessions : ~sessions[id].ready

====
